---- MODULE Spec2Model ----
(***************************************************************************)
(* ghmodelsproxy: the SSE event reader (EventReader.Read / Close), the     *)
(* transport client (AzureClient.GetChatCompletionStream, handleHTTPError) *)
(* and the consume loop of main.                                           *)
(*                                                                         *)
(* Text is modelled as a sequence of tokens.  ":" and " " are the colon    *)
(* and the space character; every other token is a run of characters that  *)
(* holds neither a colon nor white space.  A source is the sequence of     *)
(* lines bufio.Scanner delivers, followed by how the scan ends: "eof" (the *)
(* source closed cleanly, scanner.Err() is nil) or "err" (scanner.Err() is *)
(* not nil: a failed read of the source, or a line over the scanner's      *)
(* buffer).                                                                *)
(***************************************************************************)
EXTENDS Naturals, Sequences, FiniteSets, TLC

VARIABLES
    \* the response body as an SSE source, and the EventReader on it
    lines,        \* the lines the scanner delivers from the response body
    srcEnd,       \* "eof" | "err": how the scan ends after the last line
    pos,          \* number of lines the scanner has consumed
    closeCount,   \* number of times the body (io.ReadCloser) was closed
    results,      \* history: what each Read call on the reader returned
    pc,           \* control position
    \* the request and GetChatCompletionStream
    variant,      \* which of the three programs runs
    caller,       \* "main", or "api": another user of the Client interface
    model,        \* req.Model
    reqStream,    \* req.Stream: as the caller set it, then as sent
    requests,     \* number of c.client.Do calls
    transport,    \* "none" | "ok" | "fail": what c.client.Do returned
    status,       \* resp.StatusCode (0: no response)
    errBody,      \* the bytes io.ReadAll got from the body of a failed response
    bodyOps,      \* what GetChatCompletionStream did on the body, in order
    ret,          \* what GetChatCompletionStream returned
    \* main
    out,          \* standard output
    builder,      \* messageBuilder
    readErrs,     \* the non-EOF errors Read returned to main
    exitCode,     \* <<>> while running, then <<code>>
    \* a Conversation
    conversation, \* the struct: messages and systemPrompt
    constructed,  \* history: the struct as it was constructed
    calls         \* history: the calls made on it, with what they returned

readerVars == <<lines, srcEnd, pos, closeCount, results>>
clientVars == <<variant, caller, model, reqStream, requests, transport, status,
                errBody, bodyOps, ret>>
mainVars == <<out, builder, readErrs, exitCode>>
convVars == <<conversation, constructed, calls>>
vars == <<readerVars, pc, clientVars, mainVars, convVars>>

----------------------------------------------------------------------------
(* Bounds *)

MaxLines == 3
MaxReads == 4
MaxChoices == 2
MaxCloses == 1
MaxBodyLines == 3
MaxCalls == 3

----------------------------------------------------------------------------
(* Go values.  A pointer is <<>> (nil) or <<v>>. *)

Nil == <<>>
Ptr(v) == <<v>>

Contents == {"A", "B"}

\* chatChoiceDelta{Content *string}
Deltas == {[Content |-> c] : c \in {Nil} \cup {Ptr(s) : s \in Contents}}

\* ChatChoice{Delta *chatChoiceDelta}
ChatChoice == {[Delta |-> d] : d \in {Nil} \cup {Ptr(x) : x \in Deltas}}

SeqsUpTo(S, n) == UNION {[1..k -> S] : k \in 0..n}

\* ChatCompletion{Choices []ChatChoice}
ChatCompletion == {[Choices |-> cs] : cs \in SeqsUpTo(ChatChoice, MaxChoices)}

\* *new(T), var data T
Zero == [Choices |-> <<>>]

Choice(s) == [Delta |-> Ptr([Content |-> Ptr(s)])]
Completion(s) == [Choices |-> <<Choice(s)>>]

----------------------------------------------------------------------------
(* Errors *)

Err(kind, arg) == [kind |-> kind, arg |-> arg]
ErrNil == Err("nil", <<>>)
ErrEOF == Err("io.EOF", <<>>)
ErrIncomplete == Err("incomplete stream", <<>>)
ErrUnexpected(name) == Err("unexpected event type: ", name)
ErrSyntax == Err("json.SyntaxError", <<>>)
ErrType == Err("json.UnmarshalTypeError", <<>>)
ErrScanner == Err("scanner.Err()", <<>>)

----------------------------------------------------------------------------
(* encoding/json on ChatCompletion, by the struct tags *)

EncChoice(ch) ==
    IF ch.Delta = Nil THEN <<"{", "}">>
    ELSE IF ch.Delta[1].Content = Nil
         THEN <<"{", "delta", ":", "{", "}", "}">>
         ELSE <<"{", "delta", ":", "{", "content", ":",
                ch.Delta[1].Content[1], "}", "}">>

RECURSIVE EncChoices(_)
EncChoices(cs) ==
    IF cs = <<>> THEN <<>>
    ELSE IF Len(cs) = 1 THEN EncChoice(cs[1])
    ELSE EncChoice(cs[1]) \o <<",">> \o EncChoices(Tail(cs))

\* The JSON text of a completion: {"choices":[{"delta":{"content":"A"}}]}
JsonText(c) == <<"{", "choices", ":", "[">> \o EncChoices(c.Choices) \o <<"]", "}">>

\* Valid JSON that is no object: json.Unmarshal into a struct fails with
\* *json.UnmarshalTypeError and leaves the value as it was.
NonObjectJson == {<<"5">>, <<"[", "]">>}

\* The choice whose JSON text the tokens begin with, and the number of
\* tokens it takes (0: the tokens begin with no choice).
HeadChoice(toks) ==
    LET fits == {ch \in ChatChoice :
                    /\ Len(EncChoice(ch)) <= Len(toks)
                    /\ SubSeq(toks, 1, Len(EncChoice(ch))) = EncChoice(ch)}
    IN  IF fits = {} THEN [n |-> 0, ch |-> [Delta |-> Nil]]
        ELSE LET ch == CHOOSE x \in fits : TRUE IN [n |-> Len(EncChoice(ch)), ch |-> ch]

\* A choice put before the choices decoded after it.
Prepend(ch, r) == [ok |-> r.ok, cs |-> IF r.ok THEN <<ch>> \o r.cs ELSE <<>>]

\* The elements of a JSON array of choices, comma separated: the tokens
\* begin with the choice h, then end or go on after a comma.
RECURSIVE DecodeChoices(_)
DecodeAfter(toks, h) ==
    IF h.n = 0 THEN [ok |-> FALSE, cs |-> <<>>]
    ELSE IF h.n = Len(toks) THEN [ok |-> TRUE, cs |-> <<h.ch>>]
    ELSE IF toks[h.n + 1] # "," THEN [ok |-> FALSE, cs |-> <<>>]
    ELSE Prepend(h.ch, DecodeChoices(SubSeq(toks, h.n + 2, Len(toks))))

DecodeChoices(toks) == DecodeAfter(toks, HeadChoice(toks))

\* The ChatCompletion a JSON text stands for, if it is the text of one.
Decode(text) ==
    LET n == Len(text)
        inner == SubSeq(text, 5, n - 2)
    IN  IF /\ n >= 6
           /\ SubSeq(text, 1, 4) = <<"{", "choices", ":", "[">>
           /\ SubSeq(text, n - 1, n) = <<"]", "}">>
        THEN IF inner = <<>> THEN [ok |-> TRUE, val |-> Zero]
             ELSE LET r == DecodeChoices(inner) IN
                  [ok |-> r.ok, val |-> [Choices |-> r.cs]]
        ELSE [ok |-> FALSE, val |-> Zero]

UnmarshalDropsError(text) ==
    IF Decode(text).ok
    THEN [val |-> Decode(text).val, err |-> ErrNil]
    ELSE [val |-> Zero, err |-> ErrNil]

UnmarshalKeepsZero(text) ==
    IF Decode(text).ok
    THEN [val |-> Zero, err |-> ErrNil]
    ELSE IF text \in NonObjectJson
         THEN [val |-> Zero, err |-> ErrType]
         ELSE [val |-> Zero, err |-> ErrSyntax]

\* json.Unmarshal([]byte(tokens[1]), &data) with data the zero ChatCompletion
Unmarshal(text) ==
    LET d == Decode(text) IN
    IF d.ok
    THEN [val |-> d.val, err |-> ErrNil]
    ELSE IF text \in NonObjectJson
         THEN [val |-> Zero, err |-> ErrType]
         ELSE [val |-> Zero, err |-> ErrSyntax]

----------------------------------------------------------------------------
(* package strings *)

\* strings.Contains(line, ":")
ContainsColon(line) == \E i \in 1..Len(line) : line[i] = ":"

FirstColon(line) == CHOOSE i \in 1..Len(line) :
                        line[i] = ":" /\ \A j \in 1..(i - 1) : line[j] # ":"

\* strings.Split(line, ":"), its first two pieces
SplitAtEveryColon(line) ==
    LET rest == SubSeq(line, FirstColon(line) + 1, Len(line)) IN
    <<SubSeq(line, 1, FirstColon(line) - 1),
      IF ContainsColon(rest) THEN SubSeq(rest, 1, FirstColon(rest) - 1) ELSE rest>>

\* strings.SplitN(line, ":", 2), for a line that contains a colon
SplitN2(line) ==
    <<SubSeq(line, 1, FirstColon(line) - 1),
      SubSeq(line, FirstColon(line) + 1, Len(line))>>

RECURSIVE TrimLeft(_)
TrimLeft(s) == IF s # <<>> /\ s[1] = " " THEN TrimLeft(Tail(s)) ELSE s

RECURSIVE TrimRight(_)
TrimRight(s) ==
    IF s # <<>> /\ s[Len(s)] = " " THEN TrimRight(SubSeq(s, 1, Len(s) - 1)) ELSE s

\* strings.TrimSpace
TrimSpace(s) == TrimRight(TrimLeft(s))

----------------------------------------------------------------------------
(* EventReader.Read *)

SkipsOnlyBlank(line) == line = <<>>

\* line == "" || line[0] == ':'
IsSkipped(line) == line = <<>> \/ line[1] = ":"

DoneToken == <<"[DONE]">>

ScanEndAsEOF(e) == ErrEOF

ScanEndAlwaysIncomplete(e) == ErrIncomplete

\* After the loop: scanner.Err() == nil gives "incomplete stream", else the
\* scanner's error.
ScanEnd(e) == IF e = "eof" THEN ErrIncomplete ELSE ErrScanner

FieldNoDone(name, value) ==
    IF name = <<"data">>
    THEN Unmarshal(value)
    ELSE [val |-> Zero, err |-> ErrUnexpected(name)]

FieldAnyName(name, value) ==
    IF value = DoneToken
    THEN [val |-> Zero, err |-> ErrEOF]
    ELSE Unmarshal(value)

\* switch tokens[0] { case "data": ... default: ... }
Field(name, value) ==
    IF name = <<"data">>
    THEN IF value = DoneToken
         THEN [val |-> Zero, err |-> ErrEOF]
         ELSE Unmarshal(value)
    ELSE [val |-> Zero, err |-> ErrUnexpected(name)]

\* Read with a line that has no colon taken as a field name without value.
RECURSIVE ReadNoColonAsField(_, _, _)
ReadNoColonAsField(ls, e, p) ==
    IF p >= Len(ls)
    THEN [val |-> Zero, err |-> ScanEnd(e), pos |-> p]
    ELSE LET line == ls[p + 1] IN
         IF IsSkipped(line) THEN ReadNoColonAsField(ls, e, p + 1)
         ELSE IF ContainsColon(line)
         THEN LET tokens == SplitN2(line)
                  r == Field(TrimSpace(tokens[1]), TrimSpace(tokens[2]))
              IN  [val |-> r.val, err |-> r.err, pos |-> p + 1]
         ELSE [val |-> Zero, err |-> ErrUnexpected(TrimSpace(line)), pos |-> p + 1]

\* One call of Read on source (ls, e) with p lines already consumed: the
\* value and the error returned, and the new scanner position.
RECURSIVE Read(_, _, _)
Read(ls, e, p) ==
    IF p >= Len(ls)
    THEN [val |-> Zero, err |-> ScanEnd(e), pos |-> p]
    ELSE LET line == ls[p + 1] IN
         IF IsSkipped(line) THEN Read(ls, e, p + 1)
         ELSE IF ContainsColon(line)
         THEN LET tokens == SplitN2(line)
                  r == Field(TrimSpace(tokens[1]), TrimSpace(tokens[2]))
              IN  [val |-> r.val, err |-> r.err, pos |-> p + 1]
         ELSE Read(ls, e, p + 1)

\* What Read returns to its caller.
Returned(r) == [val |-> r.val, err |-> r.err]

\* The first n results of successive Read calls on source (ls, e).
RECURSIVE ReadsFrom(_, _, _, _)
ReadsFrom(ls, e, p, n) ==
    IF n = 0 THEN <<>>
    ELSE LET r == Read(ls, e, p)
         IN  <<Returned(r)>> \o ReadsFrom(ls, e, r.pos, n - 1)

----------------------------------------------------------------------------
(* Sources *)

DataLine(c) == <<"data", ":", " ">> \o JsonText(c)
DoneLine == <<"data", ":", " ", "[DONE]">>
BlankLine == <<>>
CommentLine == <<":", " ", "keepalive">>
NoColonLine == <<"ping">>
BadJsonLine == <<"data", ":", " ", "{", "choices", ":">>
NonObjectLine == <<"data", ":", " ", "5">>
EventLine == <<"event", ":", " ", "ping">>
IdLine == <<"id", " ", ":", "7">>
\* `data:x` and `data :  x `, beside DataLine's `data: x`
TightLine(c) == <<"data", ":">> \o JsonText(c)
SpacedLine(c) == <<"data", " ", ":", " ", " ">> \o JsonText(c) \o <<" ">>
SpacedDoneLine == <<"data", " ", ":", " ", " ", "[DONE]", " ">>

ReaderLines ==
    {DataLine(Completion("A")), DataLine(Completion("B")), DoneLine,
     BlankLine, CommentLine, NoColonLine, BadJsonLine, NonObjectLine, EventLine,
     IdLine, TightLine(Completion("A")), SpacedLine(Completion("A")),
     SpacedDoneLine}

ReaderSources == SeqsUpTo(ReaderLines, MaxLines)

----------------------------------------------------------------------------
(* AzureClient.GetChatCompletionStream and handleHTTPError *)

StatusOK == 200
StatusBadRequest == 400
StatusUnauthorized == 401

\* The status codes the server answers with in the model.
Statuses == {StatusOK, 201, 204, StatusBadRequest, StatusUnauthorized, 404, 500}

\* resp.Status
StatusLine(st) ==
    CASE st = 200 -> "200 OK"
      [] st = 201 -> "201 Created"
      [] st = 204 -> "204 No Content"
      [] st = 400 -> "400 Bad Request"
      [] st = 401 -> "401 Unauthorized"
      [] st = 404 -> "404 Not Found"
      [] OTHER -> "500 Internal Server Error"

Variants == {"main.go", "part_000", "part_001"}

O1Models == {"o1", "o1-mini", "o1-preview"}
Models == O1Models \cup {"OpenAI/gpt-4.1"}

\* The model main puts in the request: a literal in main.go and part_000,
\* the -model flag in part_001.
MainModels(v) == IF v = "part_001" THEN {"o1", "OpenAI/gpt-4.1"} ELSE {"OpenAI/gpt-4.1"}

\* req.Stream as GetChatCompletionStream sets it before it marshals req.
StreamFlag(v, m) == IF v = "part_001" THEN TRUE ELSE m \notin O1Models

FailsOutside2xx(st) == st < 200 \/ st > 299

\* resp.StatusCode != http.StatusOK
StatusFails(st) == st # StatusOK

ErrorBodies == {<<>>, <<"{\"error\"", ":", "\"bad token\"}">>}

ErrorPhraseSwapped(st) ==
    IF st = StatusUnauthorized THEN <<"bad request">>
    ELSE IF st = StatusBadRequest THEN <<"unauthorized">>
    ELSE <<"unexpected response from the server: ", StatusLine(st)>>

\* switch resp.StatusCode in handleHTTPError
ErrorPhrase(st) ==
    IF st = StatusUnauthorized THEN <<"unauthorized">>
    ELSE IF st = StatusBadRequest THEN <<"bad request">>
    ELSE <<"unexpected response from the server: ", StatusLine(st)>>

\* handleHTTPError: the message of the error, for the bytes io.ReadAll got.
HandleHTTPError(st, body) ==
    ErrorPhrase(st) \o (IF Len(body) > 0 THEN <<"\n">> \o body \o <<"\n">> ELSE <<>>)

ErrTransport == Err("transport", <<>>)
ErrorsNew(msg) == Err("errors.New", msg)

\* The sources a successful response streams in the model.
ProgramLines ==
    {DataLine(Completion("A")), DataLine(Completion("B")),
     DataLine([Choices |-> <<[Delta |-> Nil]>>]),
     DataLine([Choices |-> <<[Delta |-> Ptr([Content |-> Nil])]>>]),
     DataLine([Choices |-> <<Choice("A"), Choice("B")>>]),
     DoneLine, BlankLine, BadJsonLine, EventLine}

ProgramSources == SeqsUpTo(ProgramLines, MaxBodyLines)

NoRequest ==
    /\ requests = 0
    /\ transport = "none"
    /\ status = 0
    /\ errBody = <<>>
    /\ bodyOps = <<>>
    /\ ret = [resp |-> FALSE, reader |-> FALSE, err |-> ErrNil]

MainIdle ==
    /\ out = <<>>
    /\ builder = <<>>
    /\ readErrs = {}
    /\ exitCode = <<>>

\* Conversation{}: no messages, no system prompt, nothing called
NoConversation ==
    /\ conversation = [messages |-> <<>>, systemPrompt |-> ""]
    /\ constructed = conversation
    /\ calls = <<>>

\* resp, err := c.client.Do(httpReq); if err != nil { return nil, err }
TransportFailure == [resp |-> FALSE, reader |-> FALSE, err |-> ErrTransport]

CloseThenRead(readFails) ==
    <<"Close", IF readFails THEN "ReadAll: err" ELSE "ReadAll: EOF">>

\* What the failure path does on resp.Body: io.ReadAll in handleHTTPError
\* (its error dropped), then the deferred resp.Body.Close().
FailureBodyOps(readFails) ==
    <<IF readFails THEN "ReadAll: err" ELSE "ReadAll: EOF", "Close">>

ReaderAlways(stream) == TRUE

\* if req.Stream { chatCompletionResponse.Reader = NewEventReader(resp.Body) }
ReaderSet(stream) == stream

CallTransportRetried ==
    /\ pc = "start"
    /\ reqStream' = StreamFlag(variant, model)
    /\ requests' = requests + 2
    /\ transport' = "fail"
    /\ ret' = TransportFailure
    /\ pc' = "returned"
    /\ UNCHANGED <<readerVars, variant, caller, model, status, errBody, bodyOps,
                   mainVars, convVars>>

\* c.client.Do fails: return nil, err
CallTransportFails ==
    /\ pc = "start"
    /\ reqStream' = StreamFlag(variant, model)
    /\ requests' = requests + 1
    /\ transport' = "fail"
    /\ ret' = TransportFailure
    /\ pc' = "returned"
    /\ UNCHANGED <<readerVars, variant, caller, model, status, errBody, bodyOps,
                   mainVars, convVars>>

\* A response the client takes as a failure: handleHTTPError reads the body,
\* the deferred resp.Body.Close() runs, return nil, err
CallStatusFails ==
    /\ pc = "start"
    /\ \E st \in Statuses, body \in ErrorBodies, readFails \in BOOLEAN :
        /\ StatusFails(st)
        /\ status' = st
        /\ errBody' = body
        /\ bodyOps' = FailureBodyOps(readFails)
        /\ ret' = [resp |-> FALSE, reader |-> FALSE,
                   err |-> ErrorsNew(HandleHTTPError(st, body))]
    /\ reqStream' = StreamFlag(variant, model)
    /\ requests' = requests + 1
    /\ transport' = "ok"
    /\ closeCount' = closeCount + 1
    /\ pc' = "returned"
    /\ UNCHANGED <<lines, srcEnd, pos, results, variant, caller, model, mainVars, convVars>>

\* A response the client takes as a success: the body is wrapped in an
\* EventReader when req.Stream is set; return &chatCompletionResponse, nil
CallSucceeds ==
    /\ pc = "start"
    /\ \E st \in Statuses, src \in ProgramSources, e \in {"eof", "err"} :
        /\ ~StatusFails(st)
        /\ status' = st
        /\ lines' = src
        /\ srcEnd' = e
    /\ reqStream' = StreamFlag(variant, model)
    /\ requests' = requests + 1
    /\ transport' = "ok"
    /\ ret' = [resp |-> TRUE, reader |-> ReaderSet(StreamFlag(variant, model)),
               err |-> ErrNil]
    /\ pc' = "returned"
    /\ UNCHANGED <<pos, closeCount, results, variant, caller, model, errBody,
                   bodyOps, mainVars, convVars>>

----------------------------------------------------------------------------
(* main *)

\* err.Error()
ErrorText(e) == IF e.kind = "errors.New" THEN e.arg ELSE <<e.kind>>

\* if err != nil { fmt.Println(err); return }, os.Exit(1) in part_000
MainError ==
    /\ pc = "returned"
    /\ caller = "main"
    /\ ret.err # ErrNil
    /\ out' = out \o ErrorText(ret.err) \o <<"\n">>
    /\ exitCode' = IF variant = "part_000" THEN <<1>> ELSE <<0>>
    /\ pc' = "exited"
    /\ UNCHANGED <<readerVars, clientVars, builder, readErrs, convVars>>

\* reader := resp.Reader; defer reader.Close().  main asks for a model that
\* streams, so the Reader is set.
MainDefer ==
    /\ pc = "returned"
    /\ caller = "main"
    /\ ret.err = ErrNil
    /\ ret.reader
    /\ pc' = "loop"
    /\ UNCHANGED <<readerVars, clientVars, mainVars, convVars>>

EmittedFirstChoice(cs) ==
    IF cs = <<>> \/ cs[1].Delta = Nil \/ cs[1].Delta[1].Content = Nil THEN <<>>
    ELSE <<cs[1].Delta[1].Content[1]>>

\* The contents the loop over completion.Choices emits before it ends or
\* reaches a choice whose Delta is nil.
RECURSIVE Emitted(_)
Emitted(cs) ==
    IF cs = <<>> \/ cs[1].Delta = Nil THEN <<>>
    ELSE (IF cs[1].Delta[1].Content # Nil THEN <<cs[1].Delta[1].Content[1]>> ELSE <<>>)
         \o Emitted(Tail(cs))

\* choice.Delta.Content with choice.Delta nil: a nil pointer dereference
Panics(cs) == \E i \in 1..Len(cs) : cs[i].Delta = Nil

\* What main writes once the loop is left: the text (part_000), a newline,
\* the execution summary (part_001).
Epilogue(v, b) ==
    IF v = "part_000" THEN b \o <<"\n">>
    ELSE IF v = "part_001" THEN <<"\n", "Execution Summary">>
    ELSE <<"\n">>

\* One iteration of the for loop of main; on io.EOF the break, the rest of
\* main and the deferred reader.Close(); on a panic the deferred Close.
MainLoop ==
    /\ pc = "loop"
    /\ LET r == Read(lines, srcEnd, pos)
           text == Emitted(r.val.Choices)
       IN
        /\ pos' = r.pos
        /\ IF r.err = ErrEOF
           THEN /\ out' = out \o Epilogue(variant, builder)
                /\ closeCount' = closeCount + 1
                /\ exitCode' = <<0>>
                /\ pc' = "exited"
                /\ UNCHANGED <<builder, readErrs>>
           ELSE /\ readErrs' = IF r.err = ErrNil THEN readErrs ELSE readErrs \cup {r.err}
                /\ IF variant = "part_000"
                   THEN builder' = builder \o text /\ out' = out
                   ELSE out' = out \o text /\ builder' = builder
                /\ IF Panics(r.val.Choices)
                   THEN /\ closeCount' = closeCount + 1
                        /\ exitCode' = <<2>>
                        /\ pc' = "exited"
                   ELSE UNCHANGED <<closeCount, exitCode, pc>>
    /\ UNCHANGED <<lines, srcEnd, results, clientVars, convVars>>

Init ==
    /\ variant \in Variants
    /\ caller \in {"main", "api"}
    /\ model \in (IF caller = "main" THEN MainModels(variant) ELSE Models)
    /\ reqStream \in (IF caller = "main" THEN {FALSE} ELSE BOOLEAN)
    /\ NoRequest
    /\ MainIdle
    /\ NoConversation
    /\ lines = <<>>
    /\ srcEnd = "eof"
    /\ pos = 0
    /\ closeCount = 0
    /\ results = <<>>
    /\ pc = "start"

Next ==
    \/ CallTransportFails
    \/ CallStatusFails
    \/ CallSucceeds
    \/ MainError
    \/ MainDefer
    \/ MainLoop

Spec == Init /\ [][Next]_vars

----------------------------------------------------------------------------
(* The reader on its own: NewEventReader(r), then Read and Close *)

InitReader ==
    /\ lines \in ReaderSources
    /\ srcEnd \in {"eof", "err"}
    /\ pos = 0
    /\ closeCount = 0
    /\ results = <<>>
    /\ pc = "reader"
    /\ NoRequest
    /\ variant = "part_000"
    /\ caller = "api"
    /\ model = "OpenAI/gpt-4.1"
    /\ reqStream = FALSE
    /\ MainIdle
    /\ NoConversation

ReaderReadClosesOnError ==
    /\ pc = "reader"
    /\ closeCount = 0
    /\ Len(results) < MaxReads
    /\ LET r == Read(lines, srcEnd, pos) IN
        /\ pos' = r.pos
        /\ results' = Append(results,
               [val |-> r.val, err |-> r.err, from |-> pos, to |-> r.pos])
        /\ closeCount' = IF r.err = ErrNil THEN closeCount ELSE closeCount + 1
    /\ UNCHANGED <<lines, srcEnd, pc, clientVars, mainVars, convVars>>

ReaderReadRewinds ==
    /\ pc = "reader"
    /\ closeCount = 0
    /\ Len(results) < MaxReads
    /\ LET r == Read(lines, srcEnd, pos) IN
        /\ pos' = IF r.err \in {ErrIncomplete, ErrScanner} THEN 0 ELSE r.pos
        /\ results' = Append(results,
               [val |-> r.val, err |-> r.err, from |-> pos, to |-> r.pos])
    /\ UNCHANGED <<lines, srcEnd, closeCount, pc, clientVars, mainVars, convVars>>

ReaderReadDrains ==
    /\ pc = "reader"
    /\ closeCount = 0
    /\ Len(results) < MaxReads
    /\ LET r == Read(lines, srcEnd, pos) IN
        /\ pos' = Len(lines)
        /\ results' = Append(results,
               [val |-> r.val, err |-> r.err, from |-> pos, to |-> Len(lines)])
    /\ UNCHANGED <<lines, srcEnd, closeCount, pc, clientVars, mainVars, convVars>>

\* er.Read() by a caller that has not closed the reader: what a read of a
\* closed body gives is the body's affair, and the callers close last.
ReaderRead ==
    /\ pc = "reader"
    /\ closeCount = 0
    /\ Len(results) < MaxReads
    /\ LET r == Read(lines, srcEnd, pos) IN
        /\ pos' = r.pos
        /\ results' = Append(results,
               [val |-> r.val, err |-> r.err, from |-> pos, to |-> r.pos])
    /\ UNCHANGED <<lines, srcEnd, closeCount, pc, clientVars, mainVars, convVars>>

\* er.Close(): er.reader.Close(), as often as the caller calls it
ReaderClose ==
    /\ pc = "reader"
    /\ closeCount < MaxCloses
    /\ closeCount' = closeCount + 1
    /\ UNCHANGED <<lines, srcEnd, pos, results, pc, clientVars, mainVars, convVars>>

NextReader == ReaderRead \/ ReaderClose

SpecReader == InitReader /\ [][NextReader]_vars

----------------------------------------------------------------------------
(* The Conversation on its own: a struct literal, then AddMessage,
   GetMessages and Reset *)

ChatMessageRoleAssistant == "assistant"
ChatMessageRoleSystem == "system"
ChatMessageRoleUser == "user"

ChatMessageRoles ==
    {ChatMessageRoleAssistant, ChatMessageRoleSystem, ChatMessageRoleUser}

SystemPrompts == {"", "P"}

\* ChatMessage{Content: Ptr(content), Role: role}
ChatMessage(role, content) == [Content |-> Ptr(content), Role |-> role]

ChatMessages == {ChatMessage(r, s) : r \in ChatMessageRoles, s \in Contents}

GetMessagesPromptLast(c) ==
    c.messages \o
    (IF c.systemPrompt # ""
     THEN <<ChatMessage(ChatMessageRoleSystem, c.systemPrompt)>> ELSE <<>>)

\* GetMessages: a new slice of len(c.messages), plus one when systemPrompt
\* is not empty; the prompt at index 0, messages[startIndex+i] = message
GetMessages(c) ==
    LET length == Len(c.messages) + (IF c.systemPrompt # "" THEN 1 ELSE 0)
        startIndex == IF c.systemPrompt # "" THEN 1 ELSE 0
    IN  [i \in 1..length |->
            IF c.systemPrompt # "" /\ i = 1
            THEN ChatMessage(ChatMessageRoleSystem, c.systemPrompt)
            ELSE c.messages[i - startIndex]]

Call(op, arg, r) == [op |-> op, arg |-> arg, ret |-> r]

InitConversation ==
    /\ conversation \in [messages : SeqsUpTo(ChatMessages, 1),
                         systemPrompt : SystemPrompts]
    /\ constructed = conversation
    /\ calls = <<>>
    /\ pc = "conversation"
    /\ lines = <<>>
    /\ srcEnd = "eof"
    /\ pos = 0
    /\ closeCount = 0
    /\ results = <<>>
    /\ NoRequest
    /\ variant = "part_000"
    /\ caller = "api"
    /\ model = "OpenAI/gpt-4.1"
    /\ reqStream = FALSE
    /\ MainIdle

\* c.messages = append(c.messages, ChatMessage{Content: Ptr(content), Role: role})
AddMessage ==
    /\ pc = "conversation"
    /\ Len(calls) < MaxCalls
    /\ \E role \in ChatMessageRoles, content \in Contents :
        /\ conversation' = [conversation EXCEPT
                               !.messages = Append(@, ChatMessage(role, content))]
        /\ calls' = Append(calls, Call("AddMessage", <<role, content>>, <<>>))
    /\ UNCHANGED <<readerVars, pc, clientVars, mainVars, constructed>>

\* return messages
CallGetMessages ==
    /\ pc = "conversation"
    /\ Len(calls) < MaxCalls
    /\ calls' = Append(calls, Call("GetMessages", <<>>, GetMessages(conversation)))
    /\ UNCHANGED <<readerVars, pc, clientVars, mainVars, conversation, constructed>>

\* c.messages = nil
Reset ==
    /\ pc = "conversation"
    /\ Len(calls) < MaxCalls
    /\ conversation' = [conversation EXCEPT !.messages = <<>>]
    /\ calls' = Append(calls, Call("Reset", <<>>, <<>>))
    /\ UNCHANGED <<readerVars, pc, clientVars, mainVars, constructed>>

NextConversation == AddMessage \/ CallGetMessages \/ Reset

SpecConversation == InitConversation /\ [][NextConversation]_vars

----------------------------------------------------------------------------
(* Vocabulary of the properties of the reader *)

\* The lines of ReaderLines that carry a value of type ChatCompletion.
DecodableLines == {DataLine(Completion("A")), DataLine(Completion("B"))}

\* The `data` lines of ReaderLines whose value is valid JSON.
ValidJsonLines == DecodableLines \cup {NonObjectLine}

\* The lines of ReaderLines that are no field line: blank, comment, no colon.
NonFieldLines == {BlankLine, CommentLine, NoColonLine}

ValueOf(line) == CHOOSE c \in ChatCompletion : line = DataLine(c)

\* lines is a sequence of lines of S followed by one `data: [DONE]` line.
WellFormed(S) ==
    /\ Len(lines) >= 1
    /\ lines[Len(lines)] = DoneLine
    /\ \A i \in 1..(Len(lines) - 1) : lines[i] \in S

ReturnedSoFar == [k \in 1..Len(results) |-> Returned(results[k])]

\* Read call k consumed line i as the line it returned for.
Consumed(k, i) == results[k].from < i /\ results[k].to = i

\* Read call k found no field line before the source ended.
ObservesEnd(k) ==
    \A i \in (results[k].from + 1)..Len(lines) : lines[i] \in NonFieldLines

DoneConsumedBefore(k) == \E j \in 1..(k - 1) : results[j].err = ErrEOF

RemoveAt(s, i) == SubSeq(s, 1, i - 1) \o SubSeq(s, i + 1, Len(s))

IsComment(line) == line # <<>> /\ line[1] = ":"

Strip(s) == SelectSeq(s, LAMBDA l : l # <<>> /\ ~IsComment(l))

----------------------------------------------------------------------------
(* Properties of EventReader.Read *)

\* C1 as stated: for a source of N `data:` lines carrying valid JSON followed
\* by `data: [DONE]`, Read calls 1..N return without error (the decoded value
\* of line k at call k) and call N+1 returns io.EOF.
C1_ValidJsonThenDone ==
    WellFormed(ValidJsonLines) =>
        \A k \in 1..Len(results) :
            /\ k < Len(lines) =>
                 /\ results[k].err = ErrNil
                 /\ lines[k] \in DecodableLines => results[k].val = ValueOf(lines[k])
            /\ k = Len(lines) => results[k].err = ErrEOF

\* C1 amended: for a source of N `data:` lines each carrying JSON that
\* deserializes into T followed by `data: [DONE]`, Read call k (k <= N)
\* returns the value of line k with no error and call N+1 returns io.EOF.
C1_DecodableThenDone ==
    WellFormed(DecodableLines) =>
        \A k \in 1..Len(results) :
            /\ k < Len(lines) =>
                 Returned(results[k]) = [val |-> ValueOf(lines[k]), err |-> ErrNil]
            /\ k = Len(lines) => Returned(results[k]) = [val |-> Zero, err |-> ErrEOF]

C1_Witness ==
    /\ WellFormed(DecodableLines)
    /\ Len(lines) = 3
    /\ lines[1] # lines[2]
    /\ Len(results) = 3
    /\ results[3].err = ErrEOF

C3_EOFWhenNoFurtherEvents ==
    \A k \in 1..Len(results) :
        (srcEnd = "eof" /\ ObservesEnd(k)) => results[k].err = ErrEOF

\* C4: blank lines and `:`-prefixed comment lines do not change what
\* successive Read calls return: the results on a source equal the results on
\* the source with those lines taken out.
C4_BlankAndCommentTransparent ==
    ReturnedSoFar = ReadsFrom(Strip(lines), srcEnd, 0, Len(results))

C4_Witness ==
    /\ Len(lines) = 3
    /\ lines[1] = CommentLine
    /\ lines[2] \in DecodableLines
    /\ lines[3] = BlankLine
    /\ Len(results) = 2
    /\ results[1].val = ValueOf(lines[2])

\* C5: the Read call that consumes a `data` line whose value is not valid
\* JSON returns a decode error, and the earlier calls returned what they
\* return on the source without that line.
C5_DecodeErrorLeavesEarlier ==
    \A k \in 1..Len(results) : \A i \in 1..Len(lines) :
        (Consumed(k, i) /\ lines[i] = BadJsonLine) =>
            /\ Returned(results[k]) = [val |-> Zero, err |-> ErrSyntax]
            /\ SubSeq(ReturnedSoFar, 1, k - 1)
                 = ReadsFrom(RemoveAt(lines, i), srcEnd, 0, k - 1)

C5_Witness ==
    /\ Len(results) = 2
    /\ results[1].err = ErrNil
    /\ results[1].val # Zero
    /\ Consumed(2, 2)
    /\ lines[2] = BadJsonLine
    /\ results[2].err = ErrSyntax

\* The field name the property expects for a line with another field name.
OtherFieldName(line) == IF line = EventLine THEN <<"event">> ELSE <<"id">>

\* C6: the Read call that consumes a field line whose trimmed name is not
\* `data` returns "unexpected event type" carrying that name, with the zero
\* value and not io.EOF.
C6_UnexpectedFieldName ==
    \A k \in 1..Len(results) : \A i \in 1..Len(lines) :
        (Consumed(k, i) /\ lines[i] \in {EventLine, IdLine}) =>
            Returned(results[k])
              = [val |-> Zero, err |-> ErrUnexpected(OtherFieldName(lines[i]))]

C6_Witness ==
    /\ Len(results) = 2
    /\ Consumed(1, 1) /\ lines[1] = EventLine
    /\ Consumed(2, 2) /\ lines[2] = IdLine
    /\ results[2].err = ErrUnexpected(<<"id">>)

----------------------------------------------------------------------------
(* Properties of the transport client *)

Called == pc # "start" /\ pc # "reader"

\* GetChatCompletionStream returned an error and no response.
ReturnedFailure == ret.err # ErrNil /\ ~ret.resp /\ ~ret.reader

\* GetChatCompletionStream returned a response and no error.
ReturnedSuccess == ret.err = ErrNil /\ ret.resp

\* C7 as stated: the streaming flag of the outgoing request is false exactly
\* when the model is o1, o1-mini or o1-preview, whatever the caller set.
C7_StreamOffExactlyForO1 ==
    Called => (reqStream = FALSE <=> model \in O1Models)

\* C8 as stated: a response is an HTTP status failure (an error, no response,
\* no reader) exactly when its status is not 2xx, and a success otherwise.
C8_FailureExactlyNon2xx ==
    (Called /\ transport = "ok") =>
        /\ (status < 200 \/ status > 299) => ReturnedFailure
        /\ (status >= 200 /\ status <= 299) => ReturnedSuccess

\* C8 amended: a response is an HTTP status failure (an error, no response,
\* no reader) exactly when its status is not 200, other 2xx statuses
\* included, and a success exactly when it is 200.
C8_FailureExactlyNot200 ==
    (Called /\ transport = "ok") =>
        /\ status # 200 => ReturnedFailure
        /\ status = 200 => ReturnedSuccess

C8_Witness ==
    /\ Called
    /\ transport = "ok"
    /\ status = 204
    /\ ReturnedFailure
    /\ closeCount = 1

StartsWith(s, prefix) ==
    Len(prefix) <= Len(s) /\ SubSeq(s, 1, Len(prefix)) = prefix

FailedResponse == Called /\ transport = "ok" /\ ret.err # ErrNil

\* The phrase C9 names for a status: the raw status line for the others.
PhraseAsStated(st) ==
    IF st = 401 THEN <<"unauthorized">>
    ELSE IF st = 400 THEN <<"bad request">>
    ELSE <<StatusLine(st)>>

\* C9 as stated: for a response with a non-2xx status, the message begins
\* with the phrase keyed by the status (unauthorized, bad request, else the
\* raw status line), is the phrase alone for an empty body and continues with
\* a new line and the raw body otherwise.
C9_PhraseThenBody ==
    (FailedResponse /\ (status < 200 \/ status > 299)) =>
        /\ StartsWith(ret.err.arg, PhraseAsStated(status))
        /\ errBody = <<>> => ret.err.arg = PhraseAsStated(status)
        /\ errBody # <<>> =>
             StartsWith(ret.err.arg, PhraseAsStated(status) \o <<"\n">> \o errBody)

\* The phrase of the amended C9.
PhraseAmended(st) ==
    IF st = 401 THEN <<"unauthorized">>
    ELSE IF st = 400 THEN <<"bad request">>
    ELSE <<"unexpected response from the server: ", StatusLine(st)>>

\* C9 amended: the message begins with `unauthorized` for 401, `bad request`
\* for 400 and otherwise `unexpected response from the server: ` followed by
\* the raw status line; it is that phrase alone for an empty body and is
\* followed by a new line, the raw body and a closing new line otherwise.
C9_PrefixedPhraseThenBody ==
    FailedResponse =>
        /\ errBody = <<>> => ret.err.arg = PhraseAmended(status)
        /\ errBody # <<>> =>
             ret.err.arg = PhraseAmended(status) \o <<"\n">> \o errBody \o <<"\n">>

C9_Witness ==
    /\ FailedResponse
    /\ status = 401
    /\ errBody # <<>>
    /\ StartsWith(ret.err.arg, <<"unauthorized">>)
    /\ \E i \in 1..Len(ret.err.arg) :
           SubSeq(ret.err.arg, i, i + Len(errBody) - 1) = errBody

\* The request is over: the client returned a failure, or a response without
\* a reader, or main has left its read loop.
RequestOver ==
    /\ Called
    /\ transport = "ok"
    /\ \/ ret.err # ErrNil
       \/ ~ret.reader
       \/ pc = "exited"

\* C10 as stated: on every exit path of a request that got a response, the
\* response body has been closed exactly once, and it is never closed twice.
C10_BodyClosedExactlyOnce ==
    /\ closeCount <= 1
    /\ RequestOver => closeCount = 1

----------------------------------------------------------------------------
(* Properties of main *)

\* The text of an error is on standard output.
Reported(e) ==
    \E i \in 1..Len(out) :
        SubSeq(out, i, i + Len(ErrorText(e)) - 1) = ErrorText(e)

\* C11 as stated: every failure ends the run with the error reported and a
\* non-zero exit status: a failure GetChatCompletionStream returned
\* (transport, HTTP status) and a failure Read returned to the loop (decode,
\* unexpected field name, incomplete stream); none is swallowed.
C11_FailuresReportedAndExitNonZero ==
    /\ (caller = "main" /\ pc = "exited" /\ ret.err # ErrNil) =>
           (Reported(ret.err) /\ exitCode # <<0>>)
    /\ \A e \in readErrs :
           (pc = "exited" /\ Reported(e) /\ exitCode # <<0>>)

\* An iteration of the loop of main that changes nothing: Read consumes no
\* line and returns no value and an error the loop has ignored before, so
\* the same iteration follows for ever.
LoopRepeats ==
    /\ pc = "loop"
    /\ LET r == Read(lines, srcEnd, pos) IN
        r.pos = pos /\ r.val = Zero /\ r.err \in readErrs

\* C12 as stated, for a finite run: the loop of main never reaches an
\* iteration that repeats for ever, so it cannot go on on a stream that has
\* ended; and main has released the stream when it has left the loop.
C12_LoopLeavesEndedStream ==
    /\ ~LoopRepeats
    /\ (pc = "exited" /\ ret.reader) => closeCount = 1

----------------------------------------------------------------------------
(* Further properties of the transport client *)

\* C13: when GetChatCompletionStream returns for a response it takes as a
\* success (status 200), it returns a response and no error, the Reader is
\* set exactly when req.Stream is set, and the body is still open and unread.
C13_ReaderExactlyWhenStreaming ==
    (pc = "returned" /\ transport = "ok" /\ status = 200) =>
        /\ ret.resp
        /\ ret.err = ErrNil
        /\ ret.reader <=> reqStream
        /\ closeCount = 0
        /\ pos = 0

C13_Witness ==
    /\ pc = "returned"
    /\ transport = "ok"
    /\ status = 200
    /\ ~reqStream
    /\ ~ret.reader
    /\ ret.resp
    /\ lines # <<>>

\* C14: on a status the client takes as a failure, GetChatCompletionStream
\* reads the body (to its end, or until the read fails), then closes it once,
\* and returns the error with no response and no reader.
C14_ReadThenCloseThenReturn ==
    FailedResponse =>
        /\ bodyOps \in {<<"ReadAll: EOF", "Close">>, <<"ReadAll: err", "Close">>}
        /\ closeCount = 1
        /\ ReturnedFailure
        /\ ret.err.kind = "errors.New"

C14_Witness ==
    /\ FailedResponse
    /\ pc = "returned"
    /\ bodyOps = <<"ReadAll: err", "Close">>
    /\ closeCount = 1

\* C16: a call of GetChatCompletionStream sends exactly one request; after a
\* transport failure it returns that error as it is with no response and no
\* reader, and after an HTTP status failure it has sent no second request.
C16_OneRequestNoRetry ==
    Called =>
        /\ requests = 1
        /\ transport = "fail" =>
             ret = [resp |-> FALSE, reader |-> FALSE, err |-> ErrTransport]
        /\ (transport = "ok" /\ status # 200) => ReturnedFailure

C16_Witness ==
    /\ Called
    /\ transport = "fail"
    /\ requests = 1
    /\ ret.err = ErrTransport

----------------------------------------------------------------------------
(* Further properties of EventReader.Read *)

\* C15: a Read call that finds no field line before the scan ends with an
\* error of the source returns that error as it is (not "incomplete stream",
\* not io.EOF), and "incomplete stream" is returned only by a call that finds
\* no field line before a source that ended without error.
C15_SourceFailureUnchanged ==
    \A k \in 1..Len(results) :
        /\ (srcEnd = "err" /\ ObservesEnd(k)) =>
               Returned(results[k]) = [val |-> Zero, err |-> ErrScanner]
        /\ results[k].err = ErrIncomplete => (srcEnd = "eof" /\ ObservesEnd(k))

C15_Witness ==
    /\ srcEnd = "err"
    /\ Len(results) = 2
    /\ results[1].err = ErrNil
    /\ ObservesEnd(2)
    /\ results[2].err = ErrScanner

\* The lines of ReaderLines that are a `data` field with the value [DONE].
DoneLines == {DoneLine, SpacedDoneLine}

ValuesReturned == Cardinality({k \in 1..Len(results) : results[k].err = ErrNil})

\* The `data` lines consumed so far.
DataLinesConsumed ==
    Cardinality({i \in 1..pos : lines[i] # <<>> /\ lines[i][1] = "data"})

\* C18: each Read call starts where the one before stopped, passes only lines
\* that are no field line and stops right after the first field line (or at
\* the end of the source); a decoded value is returned for one `data` line,
\* and the values returned are no more than the `data` lines consumed.
C18_OneFieldLinePerRead ==
    /\ \A k \in 1..Len(results) :
        /\ results[k].from = (IF k = 1 THEN 0 ELSE results[k - 1].to)
        /\ \A i \in (results[k].from + 1)..(results[k].to - 1) :
               lines[i] \in NonFieldLines
        /\ IF ObservesEnd(k)
           THEN results[k].to = Len(lines)
           ELSE /\ results[k].to > results[k].from
                /\ lines[results[k].to] \notin NonFieldLines
        /\ results[k].err = ErrNil =>
               /\ results[k].to > results[k].from
               /\ lines[results[k].to][1] = "data"
    /\ pos = (IF results = <<>> THEN 0 ELSE results[Len(results)].to)
    /\ ValuesReturned <= DataLinesConsumed

C18_Witness ==
    /\ Len(lines) = 3
    /\ lines[1] = DoneLine
    /\ lines[2] = BlankLine
    /\ lines[3] \in DecodableLines
    /\ Len(results) = 2
    /\ results[1].to = 1
    /\ results[2].from = 1
    /\ results[2].val = ValueOf(lines[3])

\* The three spellings of one `data` field.
Spellings(c) == {DataLine(c), TightLine(c), SpacedLine(c)}

\* C19: a `data` line is split at its first colon only and both sides are
\* trimmed: `data:x`, `data: x` and `data :  x ` all give the value of the
\* JSON text x, which itself holds colons.
C19_FirstColonAndTrim ==
    \A k \in 1..Len(results) : \A i \in 1..Len(lines) :
        (Consumed(k, i) /\ lines[i] \in Spellings(Completion("A"))) =>
            Returned(results[k]) = [val |-> Completion("A"), err |-> ErrNil]

C19_Witness ==
    /\ Len(lines) = 3
    /\ Len(results) = 3
    /\ lines[1] = TightLine(Completion("A"))
    /\ lines[2] = SpacedLine(Completion("A"))
    /\ lines[3] = DataLine(Completion("A"))
    /\ \A k \in 1..3 : results[k].val = Completion("A") /\ results[k].err = ErrNil

HasNoColon(line) == line # <<>> /\ \A i \in 1..Len(line) : line[i] # ":"

\* C20: a non-blank line without a colon is skipped: the results on a source
\* equal the results on the source with those lines taken out.
C20_NoColonLineSkipped ==
    ReturnedSoFar
      = ReadsFrom(SelectSeq(lines, LAMBDA l : ~HasNoColon(l)), srcEnd, 0, Len(results))

C20_Witness ==
    /\ Len(lines) = 3
    /\ lines[1] = NoColonLine
    /\ lines[2] \in DecodableLines
    /\ lines[3] = NoColonLine
    /\ Len(results) = 2
    /\ results[1].val = ValueOf(lines[2])
    /\ results[1].to = 2
    /\ results[2].to = 3

\* Read call k failed to decode the value of a `data` line.
DecodeFailed(k) == results[k].err \in {ErrSyntax, ErrType}

\* C21: Read never closes the stream, whatever it returns: a step that adds
\* a result leaves closeCount as it was, so only Close closes.  After a
\* decode failure the next Read goes on with the line after the malformed
\* one: it starts there, and returns the value of that line when the line
\* is a decodable `data` line.
C21_ReadLeavesStreamOpen ==
    /\ [][results' # results => closeCount' = closeCount]_vars
    /\ [](\A k \in 1..(Len(results) - 1) :
            DecodeFailed(k) =>
              /\ results[k + 1].from = results[k].to
              /\ (results[k].to < Len(lines) /\ lines[results[k].to + 1] \in DecodableLines)
                   => Returned(results[k + 1])
                        = [val |-> ValueOf(lines[results[k].to + 1]), err |-> ErrNil])

C21_Witness ==
    /\ Len(lines) = 3
    /\ Len(results) = 3
    /\ DecodeFailed(1)
    /\ lines[2] \in DecodableLines
    /\ results[2].err = ErrNil
    /\ results[2].val = ValueOf(lines[2])
    /\ results[3].err = ErrEOF
    /\ closeCount = 0

\* Read call k reported that the scan has ended.
ScanEnded(k) == results[k].err \in {ErrIncomplete, ErrScanner}

----------------------------------------------------------------------------
(* Properties of the loop of main *)

\* The `data` lines of the expected payload shape: an object with a choices
\* array in which every choice carries a delta.
ShapedLines ==
    {DataLine(c) : c \in {x \in ChatCompletion :
                            \A i \in 1..Len(x.Choices) : x.Choices[i].Delta # Nil}}

\* The index of the first `data: [DONE]` line (0: none).
FirstDone ==
    IF \E i \in 1..Len(lines) : lines[i] = DoneLine
    THEN CHOOSE i \in 1..Len(lines) :
            lines[i] = DoneLine /\ \A j \in 1..(i - 1) : lines[j] # DoneLine
    ELSE 0

\* The stream is lines of the expected shape, then `data: [DONE]`.
WellFormedStream ==
    /\ FirstDone > 0
    /\ \A i \in 1..(FirstDone - 1) : lines[i] \in ShapedLines

\* The content fragments of one value, in choice order.
Fragments(c) ==
    LET with == SelectSeq(c.Choices,
                    LAMBDA ch : ch.Delta # Nil /\ ch.Delta[1].Content # Nil)
    IN  [i \in 1..Len(with) |-> with[i].Delta[1].Content[1]]

\* The fragments of the first n lines of a well-formed stream, in order.
RECURSIVE FragmentsUpTo(_)
FragmentsUpTo(n) ==
    IF n = 0 THEN <<>>
    ELSE FragmentsUpTo(n - 1) \o Fragments(ValueOf(lines[n]))

\* The text main has emitted or collected for output.
TextSoFar == IF variant = "part_000" THEN builder ELSE out

\* What main writes after the text.
Ending == IF variant = "part_001" THEN <<"\n", "Execution Summary">> ELSE <<"\n">>

\* C23: for a well-formed stream (`data` lines of the expected shape, then
\* `data: [DONE]`) the text of main is the concatenation of the content
\* fragments of the values read, in stream order and in choice order: while
\* the loop runs it is the fragments of the lines consumed, and when main has
\* ended it is the fragments of all lines before [DONE], nothing from [DONE].
C23_TextIsConcatenation ==
    (caller = "main" /\ ret.reader /\ WellFormedStream) =>
        /\ pc = "loop" => (pos < FirstDone /\ TextSoFar = FragmentsUpTo(pos))
        /\ pc = "exited" =>
              /\ pos = FirstDone
              /\ exitCode = <<0>>
              /\ out = FragmentsUpTo(FirstDone - 1) \o Ending

C23_Witness ==
    /\ caller = "main"
    /\ pc = "exited"
    /\ Len(lines) = 3
    /\ lines[1] = DataLine([Choices |-> <<Choice("A"), Choice("B")>>])
    /\ lines[2] = DataLine(Completion("B"))
    /\ lines[3] = DoneLine
    /\ out = <<"A", "B", "B">> \o Ending

\* C24: processing the choices of a value Read returned never dereferences
\* an absent delta: main does not end in a nil pointer panic.
C24_NoAbsentDeltaDereferenced == exitCode # <<2>>

----------------------------------------------------------------------------
(* Properties of the Conversation *)

\* The messages of the conversation after its first k calls, by the history:
\* the ones it was constructed with, each AddMessage appending one, each
\* Reset leaving none.
RECURSIVE MessagesAfter(_)
MessagesAfter(k) ==
    IF k = 0 THEN constructed.messages
    ELSE IF calls[k].op = "Reset" THEN <<>>
    ELSE IF calls[k].op = "AddMessage"
         THEN Append(MessagesAfter(k - 1),
                     [Content |-> <<calls[k].arg[2]>>, Role |-> calls[k].arg[1]])
    ELSE MessagesAfter(k - 1)

HasPrompt == constructed.systemPrompt # ""

\* C25: every GetMessages call returns the system prompt, as a first element
\* of role "system" exactly when the prompt is not empty, followed by the
\* messages in the order they were added; its length is the number of
\* messages plus one with a prompt.  GetMessages leaves the conversation as
\* it was, and Reset removes the messages and keeps the prompt.
C25_PromptThenMessagesInOrder ==
    /\ \A k \in 1..Len(calls) :
          calls[k].op = "GetMessages" =>
            LET got == calls[k].ret
                before == MessagesAfter(k - 1)
                shift == IF HasPrompt THEN 1 ELSE 0
            IN  /\ Len(got) = Len(before) + shift
                /\ HasPrompt =>
                      got[1] = [Content |-> <<constructed.systemPrompt>>, Role |-> "system"]
                /\ \A i \in 1..Len(before) : got[i + shift] = before[i]
    /\ conversation.messages = MessagesAfter(Len(calls))
    /\ conversation.systemPrompt = constructed.systemPrompt

C25_Witness ==
    /\ HasPrompt
    /\ Len(constructed.messages) = 1
    /\ Len(calls) = 3
    /\ calls[1].op = "AddMessage"
    /\ calls[2].op = "GetMessages"
    /\ Len(calls[2].ret) = 3
    /\ calls[3].op = "Reset"
    /\ conversation = [messages |-> <<>>, systemPrompt |-> "P"]

====
